---------------------------- MODULE Spec2Model ----------------------------
(***************************************************************************)
(* A model of go-grpc-prometheus: the ServerMetrics and ClientMetrics      *)
(* registries, the four interceptors, the two monitored streams and the    *)
(* pre-registration of a server's methods.                                 *)
(*                                                                         *)
(* A CounterVec / HistogramVec is a function from the label tuples whose   *)
(* series exist to the series' value (a counter's count, a histogram's     *)
(* number of observations).  A wrapped handler, invoker or streamer is     *)
(* opaque and may run for long, so an interceptor is two actions: the part *)
(* before the wrapped call and the part after it returns.                  *)
(***************************************************************************)
EXTENDS Integers, Sequences, FiniteSets, TLC

VARIABLES
    sm,     \* the ServerMetrics object
    cm,     \* the ClientMetrics object
    calls,  \* the intercepted calls, one record per call
    ch,     \* what the last Describe or Collect sent to its channel
    enabling \* the Enable...Histogram call that is under way, statement by
             \* statement, and its stores other goroutines do not see yet

vars == <<sm, cm, calls, ch, enabling>>

(***************************************************************************)
(* Bounds                                                                  *)
(***************************************************************************)
MaxCalls == 1
MaxOps == 1
ScenarioOps == 6
ConcurrentCalls == 2
TimedOps == 3

Calls == 1..MaxCalls

(***************************************************************************)
(* grpcType, codes and errors                                              *)
(***************************************************************************)
Unary == "unary"
ClientStream == "client_stream"
ServerStream == "server_stream"
BidiStream == "bidi_stream"

OK == "OK"
Canceled == "Canceled"
Unknown == "Unknown"
NotFound == "NotFound"

allCodes ==
    { OK, Canceled, Unknown, "InvalidArgument", "DeadlineExceeded", NotFound,
      "AlreadyExists", "PermissionDenied", "ResourceExhausted",
      "FailedPrecondition", "Aborted", "OutOfRange", "Unimplemented",
      "Internal", "Unavailable", "DataLoss", "Unauthenticated" }

\* An error value: nil, io.EOF, an error that carries a gRPC status, or any
\* other error (one that carries no status).
nil == [kind |-> "nil", code |-> ""]
EOF == [kind |-> "EOF", code |-> ""]
PlainError == [kind |-> "error", code |-> ""]
StatusError(c) == [kind |-> "status", code |-> c]

\* The status codes the wrapped operations of the model fail with (a
\* cancelled call fails with a status error too, of code Canceled).
FailureCodes == {NotFound}

Errors == {nil, EOF, PlainError} \cup {StatusError(c) : c \in FailureCodes}

\* grpc.Code(err): OK for nil, the status' code for a status error, Unknown
\* for any other error.
Code(err) ==
    IF err = nil THEN OK
    ELSE IF err.kind = "status" THEN err.code
    ELSE Unknown

\* status.FromError(err) followed by st.Code(): a nil error gives a nil
\* status, whose Code() is OK; an error without status gives
\* status.New(codes.Unknown, err.Error()).
FromErrorCode(err) ==
    IF err = nil THEN OK
    ELSE IF err.kind = "status" THEN err.code
    ELSE Unknown

(***************************************************************************)
(* The methods of the server, as GetServiceInfo() lists them, and the      *)
(* full method names calls arrive with.                                    *)
(***************************************************************************)
MethodInfo(name, cs, ss) ==
    [Name |-> name, IsClientStream |-> cs, IsServerStream |-> ss]

ServiceInfo ==
    [svc |-> { MethodInfo("Ping", FALSE, FALSE),
               MethodInfo("PingList", FALSE, TRUE),
               MethodInfo("PingStream", TRUE, TRUE) }]

Services == DOMAIN ServiceInfo

\* "/service/method"
FullMethod(service, name) == <<"/", service, "/", name>>

\* splitMethodName: drops the leading "/" and splits at the next "/";
\* a name without that second "/" gives ("unknown", "unknown").
splitMethodName(fullMethod) ==
    LET rest == IF Len(fullMethod) > 0 /\ Head(fullMethod) = "/"
                THEN Tail(fullMethod) ELSE fullMethod
        idx == {i \in 1..Len(rest) : rest[i] = "/"}
    IN  IF idx # {} /\ Len(rest) = 3 /\ idx = {2}
        THEN <<rest[1], rest[3]>>
        ELSE <<"unknown", "unknown">>

\* typeFromMethodInfo: the grpcType of a registered method.
typeFromMethodInfo(mInfo) ==
    IF ~mInfo.IsClientStream /\ ~mInfo.IsServerStream THEN Unary
    ELSE IF mInfo.IsClientStream /\ ~mInfo.IsServerStream THEN ClientStream
    ELSE IF ~mInfo.IsClientStream /\ mInfo.IsServerStream THEN ServerStream
    ELSE BidiStream

\* streamRpcType(info)
streamRpcType(info) ==
    IF info.IsClientStream /\ ~info.IsServerStream THEN ClientStream
    ELSE IF ~info.IsClientStream /\ info.IsServerStream THEN ServerStream
    ELSE BidiStream

\* clientStreamType(desc)
clientStreamType(desc) ==
    IF desc.ClientStreams /\ ~desc.ServerStreams THEN ClientStream
    ELSE IF ~desc.ClientStreams /\ desc.ServerStreams THEN ServerStream
    ELSE BidiStream

(***************************************************************************)
(* CounterVec and HistogramVec                                             *)
(***************************************************************************)
\* prom.NewCounterVec / prom.NewHistogramVec: a vector without series.
NewVec == << >>

\* vec.GetMetricWithLabelValues(lvs...): the series of lvs, created with the
\* value zero when it does not exist yet, and left alone when it does.
GetMetricWithLabelValues_Replaces(vec, lvs) ==
    (lvs :> 0) @@ vec
GetMetricWithLabelValues(vec, lvs) ==
    IF lvs \in DOMAIN vec THEN vec ELSE vec @@ (lvs :> 0)

\* vec.WithLabelValues(lvs...).Inc() and hist.WithLabelValues(lvs...).Observe(d)
Inc(vec, lvs) ==
    [GetMetricWithLabelValues(vec, lvs) EXCEPT ![lvs] = @ + 1]

\* The value of a series, 0 when the series does not exist.
Value(vec, lvs) == IF lvs \in DOMAIN vec THEN vec[lvs] ELSE 0

\* Bucket options: the default buckets or custom ones.
DefBuckets == "DefBuckets"
Buckets == {DefBuckets, "custom"}

NoHistogram == [set |-> FALSE, buckets |-> DefBuckets, series |-> NewVec]

\* prom.NewHistogramVec(opts, labels)
NewHistogramVec(opts) == [set |-> TRUE, buckets |-> opts, series |-> NewVec]


(***************************************************************************)
(* The registries                                                          *)
(***************************************************************************)
\* NewServerMetrics()
NewServerMetrics ==
    [ serverStartedCounter          |-> NewVec,
      serverHandledCounter          |-> NewVec,
      serverStreamMsgReceived       |-> NewVec,
      serverStreamMsgSent           |-> NewVec,
      serverHandledHistogramEnabled |-> FALSE,
      serverHandledHistogramOpts    |-> DefBuckets,
      serverHandledHistogram        |-> NoHistogram ]

\* NewClientMetrics()
NewClientMetrics ==
    [ clientStartedCounter             |-> NewVec,
      clientHandledCounter             |-> NewVec,
      clientStreamMsgReceived          |-> NewVec,
      clientStreamMsgSent              |-> NewVec,
      clientHandledHistogramEnabled    |-> FALSE,
      clientHandledHistogramOpts       |-> DefBuckets,
      clientHandledHistogram           |-> NoHistogram,
      clientStreamRecvHistogramEnabled |-> FALSE,
      clientStreamRecvHistogramOpts    |-> DefBuckets,
      clientStreamRecvHistogram        |-> NoHistogram,
      clientStreamSendHistogramEnabled |-> FALSE,
      clientStreamSendHistogramOpts    |-> DefBuckets,
      clientStreamSendHistogram        |-> NoHistogram,
      clientMsgSizeReceivedHistogramEnabled |-> FALSE,
      clientMsgSizeReceivedHistogramOpts    |-> DefBuckets,
      clientMsgSizeReceivedHistogram        |-> NoHistogram,
      clientMsgSizeSentHistogramEnabled     |-> FALSE,
      clientMsgSizeSentHistogramOpts        |-> DefBuckets,
      clientMsgSizeSentHistogram            |-> NoHistogram ]

(***************************************************************************)
(* The call reporters.  A reporter holds the label tuple of its call; its  *)
(* methods are given as the registry they leave behind.                    *)
(***************************************************************************)
NoReporter == [rpcType |-> "", serviceName |-> "", methodName |-> ""]

Reporter(rpcType, fullMethod) ==
    LET name == splitMethodName(fullMethod)
    IN  [rpcType |-> rpcType, serviceName |-> name[1], methodName |-> name[2]]

Labels(r) == <<r.rpcType, r.serviceName, r.methodName>>
LabelsWithCode(r, code) == <<r.rpcType, r.serviceName, r.methodName, code>>

Observe(hist, lvs) == [hist EXCEPT !.series = Inc(@, lvs)]

\* newServerReporter: the call is counted as started.
newServerReporter(m, r) ==
    [m EXCEPT !.serverStartedCounter = Inc(@, Labels(r))]

ServerReceivedMessage(m, r) ==
    [m EXCEPT !.serverStreamMsgReceived = Inc(@, Labels(r))]

ServerSentMessage(m, r) ==
    [m EXCEPT !.serverStreamMsgSent = Inc(@, Labels(r))]

ServerHandled(m, r, code) ==
    LET counted == [m EXCEPT !.serverHandledCounter =
                                 Inc(@, LabelsWithCode(r, code))]
    IN  IF m.serverHandledHistogramEnabled
        THEN [counted EXCEPT !.serverHandledHistogram = Observe(@, Labels(r))]
        ELSE counted

\* newClientReporter
newClientReporter(m, r) ==
    [m EXCEPT !.clientStartedCounter = Inc(@, Labels(r))]

ClientReceivedMessage(m, r) ==
    [m EXCEPT !.clientStreamMsgReceived = Inc(@, Labels(r))]

ClientSentMessage(m, r) ==
    [m EXCEPT !.clientStreamMsgSent = Inc(@, Labels(r))]

ClientHandled(m, r, code) ==
    LET counted == [m EXCEPT !.clientHandledCounter =
                                 Inc(@, LabelsWithCode(r, code))]
    IN  IF m.clientHandledHistogramEnabled
        THEN [counted EXCEPT !.clientHandledHistogram = Observe(@, Labels(r))]
        ELSE counted

\* SendMessageTimer() ... timer.ObserveDuration(): the timer observes into the
\* send histogram when that histogram is enabled, and is empty otherwise.
SendMessageTimer(m, r) ==
    IF m.clientStreamSendHistogramEnabled
    THEN [m EXCEPT !.clientStreamSendHistogram = Observe(@, Labels(r))]
    ELSE m

\* ReceiveMessageTimer() ... timer.ObserveDuration()
ReceiveMessageTimer(m, r) ==
    IF m.clientStreamRecvHistogramEnabled
    THEN [m EXCEPT !.clientStreamRecvHistogram = Observe(@, Labels(r))]
    ELSE m

(***************************************************************************)
(* The calls                                                               *)
(***************************************************************************)
\* What a wrapped operation returns and what an interceptor returns: a
\* response (or stream) and an error.  `by` names the decorator a returned
\* stream is wrapped in.
NoResult == [resp |-> "none", by |-> "", err |-> nil]
Result(resp, err) == [resp |-> resp, by |-> "", err |-> err]

\* return resp, err / return err / return nil, err
Returned_DropsError(resp, err) == Result(resp, nil)
Returned(resp, err) == Result(resp, err)

\* &monitoredClientStream{clientStream, monitor}
monitoredClientStream(clientStream) ==
    [resp |-> clientStream, by |-> "monitoredClientStream", err |-> nil]

\* What the underlying stream returned to a decorated SendMsg or RecvMsg, and
\* what the decorated method returned.
NoOp == [op |-> "none", under |-> nil, ret |-> nil]
Op(op, under, ret) == [op |-> op, under |-> under, ret |-> ret]

\* The streaming flags of a call's descriptor (grpc.StreamDesc,
\* grpc.StreamServerInfo); a unary call comes without them.
NoDesc == [ClientStreams |-> FALSE, ServerStreams |-> FALSE]

IdleCall ==
    [ pc       |-> "idle",      \* idle, wrapped (in the wrapped operation),
                                \* open (a client stream in use), done
      role     |-> "none",      \* client or server
      stream   |-> FALSE,       \* a streaming call
      desc     |-> NoDesc,      \* the streaming flags the call came with
      monitor  |-> NoReporter,  \* the call's reporter
      invoked  |-> 0,           \* how often the wrapped operation was invoked
      wrapped  |-> NoResult,    \* what the wrapped operation returned
      returned |-> NoResult,    \* what the interceptor returned
      sendOk   |-> 0,           \* underlying SendMsg calls that succeeded
      recvOk   |-> 0,           \* underlying RecvMsg calls that succeeded
      ops      |-> 0,           \* SendMsg and RecvMsg attempts
      handled  |-> 0,           \* Handled events of the reporter
      late     |-> 0,           \* SentMessage and ReceivedMessage events of
                                \* the reporter that followed a Handled event
      last     |-> NoOp ]       \* the last SendMsg or RecvMsg

\* Calls are numbered in the order they arrive in.
Arrives(c) ==
    /\ calls[c].pc = "idle"
    /\ \A d \in DOMAIN calls : d < c => calls[d].pc # "idle"

\* Nothing has been described or collected.
NoScrape == [by |-> "none", sent |-> << >>]

\* No Enable...Histogram call is under way.
NoEnable ==
    [role |-> "none", enabled |-> "", histogram |-> "",
     created |-> NoHistogram, stores |-> {}]

Init ==
    /\ sm = NewServerMetrics
    /\ cm = NewClientMetrics
    /\ calls = [c \in Calls |-> IdleCall]
    /\ ch = NoScrape
    /\ enabling = NoEnable

\* The methods calls are made to.
UnaryMethods ==
    UNION { { FullMethod(s, mi.Name) :
              mi \in {x \in ServiceInfo[s] :
                         ~x.IsClientStream /\ ~x.IsServerStream} } :
            s \in Services }

StreamInfos ==
    UNION { { [FullMethod     |-> FullMethod(s, mi.Name),
               IsClientStream |-> mi.IsClientStream,
               IsServerStream |-> mi.IsServerStream] :
              mi \in {x \in ServiceInfo[s] :
                         x.IsClientStream \/ x.IsServerStream} } :
            s \in Services }

StreamDesc(info) ==
    [ClientStreams |-> info.IsClientStream, ServerStreams |-> info.IsServerStream]

\* Stream descriptors of every combination of the two flags.
AnyStreamInfos ==
    { [FullMethod     |-> FullMethod("svc", "PingStream"),
       IsClientStream |-> cs,
       IsServerStream |-> ss] : cs, ss \in BOOLEAN }

Responses == {"nil", "resp"}

(***************************************************************************)
(* Server side                                                             *)
(***************************************************************************)
\* UnaryServerInterceptor, up to the call of the handler.
UnaryServerInterceptor(c, fullMethod) ==
    /\ Arrives(c)
    /\ LET monitor == Reporter(Unary, fullMethod)
       IN  /\ sm' = ServerReceivedMessage(newServerReporter(sm, monitor), monitor)
           /\ calls' = [calls EXCEPT ![c] =
                  [@ EXCEPT !.pc = "wrapped", !.role = "server",
                            !.monitor = monitor, !.invoked = @ + 1]]
    /\ UNCHANGED <<cm, ch, enabling>>

\* UnaryServerInterceptor after the handler: monitor.Handled(grpc.Code(err)),
\* and monitor.SentMessage() if err == nil.
UnaryServerAfterHandler_SentOnError(m, monitor, err) ==
    LET handled == ServerHandled(m, monitor, Code(err))
    IN  IF err # nil THEN ServerSentMessage(handled, monitor) ELSE handled
UnaryServerAfterHandler(m, monitor, err) ==
    LET handled == ServerHandled(m, monitor, Code(err))
    IN  IF err = nil THEN ServerSentMessage(handled, monitor) ELSE handled

\* UnaryServerInterceptor, from the return of the handler.
UnaryServerReturn(c, resp, err) ==
    /\ calls[c].pc = "wrapped"
    /\ calls[c].role = "server"
    /\ ~calls[c].stream
    /\ sm' = UnaryServerAfterHandler(sm, calls[c].monitor, err)
    /\ calls' = [calls EXCEPT ![c] =
           [@ EXCEPT !.pc = "done", !.handled = @ + 1,
                     !.late = IF err = nil THEN @ + 1 ELSE @,
                     !.wrapped = Result(resp, err),
                     !.returned = Returned(resp, err)]]
    /\ UNCHANGED <<cm, ch, enabling>>

\* StreamServerInterceptor, up to the call of the handler.
StreamServerInterceptor(c, info) ==
    /\ Arrives(c)
    /\ LET monitor == Reporter(streamRpcType(info), info.FullMethod)
       IN  /\ sm' = newServerReporter(sm, monitor)
           /\ calls' = [calls EXCEPT ![c] =
                  [@ EXCEPT !.pc = "wrapped", !.role = "server",
                            !.stream = TRUE, !.desc = StreamDesc(info),
                            !.monitor = monitor, !.invoked = @ + 1]]
    /\ UNCHANGED <<cm, ch, enabling>>

\* monitoredServerStream.SendMsg, called by the stream handler.
ServerSendMsg(c, err, maxOps) ==
    /\ calls[c].pc = "wrapped"
    /\ calls[c].role = "server"
    /\ calls[c].stream
    /\ calls[c].ops < maxOps
    /\ sm' = IF err = nil THEN ServerSentMessage(sm, calls[c].monitor) ELSE sm
    /\ calls' = [calls EXCEPT ![c] =
           [@ EXCEPT !.ops = @ + 1,
                     !.sendOk = IF err = nil THEN @ + 1 ELSE @,
                     !.last = Op("SendMsg", err, err)]]
    /\ UNCHANGED <<cm, ch, enabling>>

\* monitoredServerStream.RecvMsg, called by the stream handler.
ServerRecvMsg(c, err, maxOps) ==
    /\ calls[c].pc = "wrapped"
    /\ calls[c].role = "server"
    /\ calls[c].stream
    /\ calls[c].ops < maxOps
    /\ sm' = IF err = nil THEN ServerReceivedMessage(sm, calls[c].monitor)
             ELSE sm
    /\ calls' = [calls EXCEPT ![c] =
           [@ EXCEPT !.ops = @ + 1,
                     !.recvOk = IF err = nil THEN @ + 1 ELSE @,
                     !.last = Op("RecvMsg", err, err)]]
    /\ UNCHANGED <<cm, ch, enabling>>

\* StreamServerInterceptor, from the return of the handler.
StreamServerReturn(c, err) ==
    /\ calls[c].pc = "wrapped"
    /\ calls[c].role = "server"
    /\ calls[c].stream
    /\ sm' = ServerHandled(sm, calls[c].monitor, Code(err))
    /\ calls' = [calls EXCEPT ![c] =
           [@ EXCEPT !.pc = "done", !.handled = @ + 1,
                     !.wrapped = Result("none", err),
                     !.returned = Returned("none", err)]]
    /\ UNCHANGED <<cm, ch, enabling>>

\* preRegisterMethod
preRegisterMethod_SkipsHistogram(metrics, serviceName, mInfo) ==
    LET methodName == mInfo.Name
        methodType == typeFromMethodInfo(mInfo)
        lvs == <<methodType, serviceName, methodName>>
        RECURSIVE handledFor(_, _)
        handledFor(vec, codes) ==
            IF codes = {} THEN vec
            ELSE LET code == CHOOSE x \in codes : TRUE
                 IN  handledFor(
                        GetMetricWithLabelValues(vec,
                            <<methodType, serviceName, methodName, code>>),
                        codes \ {code})
    IN  [metrics EXCEPT
            !.serverStartedCounter = GetMetricWithLabelValues(@, lvs),
            !.serverStreamMsgReceived = GetMetricWithLabelValues(@, lvs),
            !.serverStreamMsgSent = GetMetricWithLabelValues(@, lvs),
            !.serverHandledHistogram =
                @,
            !.serverHandledCounter = handledFor(@, allCodes)]

preRegisterMethod_Increments(metrics, serviceName, mInfo) ==
    LET methodName == mInfo.Name
        methodType == typeFromMethodInfo(mInfo)
        lvs == <<methodType, serviceName, methodName>>
        RECURSIVE handledFor(_, _)
        handledFor(vec, codes) ==
            IF codes = {} THEN vec
            ELSE LET code == CHOOSE x \in codes : TRUE
                 IN  handledFor(
                        GetMetricWithLabelValues(vec,
                            <<methodType, serviceName, methodName, code>>),
                        codes \ {code})
    IN  [metrics EXCEPT
            !.serverStartedCounter = Inc(@, lvs),
            !.serverStreamMsgReceived = GetMetricWithLabelValues(@, lvs),
            !.serverStreamMsgSent = GetMetricWithLabelValues(@, lvs),
            !.serverHandledHistogram =
                IF metrics.serverHandledHistogramEnabled
                THEN [@ EXCEPT !.series = GetMetricWithLabelValues(@, lvs)]
                ELSE @,
            !.serverHandledCounter = handledFor(@, allCodes)]

preRegisterMethod_OnlyOK(metrics, serviceName, mInfo) ==
    LET methodName == mInfo.Name
        methodType == typeFromMethodInfo(mInfo)
        lvs == <<methodType, serviceName, methodName>>
    IN  [metrics EXCEPT
            !.serverStartedCounter = GetMetricWithLabelValues(@, lvs),
            !.serverStreamMsgReceived = GetMetricWithLabelValues(@, lvs),
            !.serverStreamMsgSent = GetMetricWithLabelValues(@, lvs),
            !.serverHandledHistogram =
                IF metrics.serverHandledHistogramEnabled
                THEN [@ EXCEPT !.series = GetMetricWithLabelValues(@, lvs)]
                ELSE @,
            !.serverHandledCounter =
                GetMetricWithLabelValues(@,
                    <<methodType, serviceName, methodName, OK>>)]

preRegisterMethod(metrics, serviceName, mInfo) ==
    LET methodName == mInfo.Name
        methodType == typeFromMethodInfo(mInfo)
        lvs == <<methodType, serviceName, methodName>>
        RECURSIVE handledFor(_, _)
        handledFor(vec, codes) ==
            IF codes = {} THEN vec
            ELSE LET code == CHOOSE x \in codes : TRUE
                 IN  handledFor(
                        GetMetricWithLabelValues(vec,
                            <<methodType, serviceName, methodName, code>>),
                        codes \ {code})
    IN  [metrics EXCEPT
            !.serverStartedCounter = GetMetricWithLabelValues(@, lvs),
            !.serverStreamMsgReceived = GetMetricWithLabelValues(@, lvs),
            !.serverStreamMsgSent = GetMetricWithLabelValues(@, lvs),
            !.serverHandledHistogram =
                IF metrics.serverHandledHistogramEnabled
                THEN [@ EXCEPT !.series = GetMetricWithLabelValues(@, lvs)]
                ELSE @,
            !.serverHandledCounter = handledFor(@, allCodes)]

\* InitializeMetrics(server), as the registry it leaves behind.
RECURSIVE preRegisterMethods(_, _, _)
preRegisterMethods(metrics, serviceName, mInfos) ==
    IF mInfos = {} THEN metrics
    ELSE LET mInfo == CHOOSE x \in mInfos : TRUE
         IN  preRegisterMethods(preRegisterMethod(metrics, serviceName, mInfo),
                                serviceName, mInfos \ {mInfo})

RECURSIVE preRegisterServices(_, _, _)
preRegisterServices(metrics, serviceInfo, services) ==
    IF services = {} THEN metrics
    ELSE LET serviceName == CHOOSE x \in services : TRUE
         IN  preRegisterServices(
                 preRegisterMethods(metrics, serviceName, serviceInfo[serviceName]),
                 serviceInfo, services \ {serviceName})

InitializeMetrics ==
    /\ sm' = preRegisterServices(sm, ServiceInfo, DOMAIN ServiceInfo)
    /\ UNCHANGED <<cm, calls, ch, enabling>>

\* EnableHandlingTimeHistogram(opts...): opts is the sequence of bucket
\* options given.
RECURSIVE applyOpts(_, _)
applyOpts(histogramOpts, opts) ==
    IF opts = << >> THEN histogramOpts ELSE applyOpts(Head(opts), Tail(opts))

EnableHandlingTimeHistogram(opts) ==
    /\ LET o == applyOpts(sm.serverHandledHistogramOpts, opts)
       IN  sm' = [sm EXCEPT
                     !.serverHandledHistogramOpts = o,
                     !.serverHandledHistogram =
                         IF ~sm.serverHandledHistogramEnabled
                         THEN NewHistogramVec(o) ELSE @,
                     !.serverHandledHistogramEnabled = TRUE]
    /\ UNCHANGED <<cm, calls, ch, enabling>>

(***************************************************************************)
(* Client side                                                             *)
(***************************************************************************)
\* The body the five Enable...Histogram methods of ClientMetrics share: the
\* options are applied to the histogram's Opts field, the histogram is
\* created from them if it is not enabled yet, and the flag is set.
enableClientHistogram_RecreatesOnOpts(m, enabled, histogramOpts, histogram, opts) ==
    LET o == applyOpts(m[histogramOpts], opts)
    IN  [m EXCEPT
            ![histogramOpts] = o,
            ![histogram] = IF ~m[enabled] \/ opts # << >>
                           THEN NewHistogramVec(o) ELSE @,
            ![enabled] = TRUE]
enableClientHistogram(m, enabled, histogramOpts, histogram, opts) ==
    LET o == applyOpts(m[histogramOpts], opts)
    IN  [m EXCEPT
            ![histogramOpts] = o,
            ![histogram] = IF ~m[enabled] THEN NewHistogramVec(o) ELSE @,
            ![enabled] = TRUE]

EnableClientHandlingTimeHistogram(opts) ==
    /\ cm' = enableClientHistogram(cm, "clientHandledHistogramEnabled",
                  "clientHandledHistogramOpts", "clientHandledHistogram", opts)
    /\ UNCHANGED <<sm, calls, ch, enabling>>

EnableClientStreamReceiveTimeHistogram(opts) ==
    /\ cm' = enableClientHistogram(cm, "clientStreamRecvHistogramEnabled",
                  "clientStreamRecvHistogramOpts", "clientStreamRecvHistogram",
                  opts)
    /\ UNCHANGED <<sm, calls, ch, enabling>>

EnableClientStreamSendTimeHistogram(opts) ==
    /\ cm' = enableClientHistogram(cm, "clientStreamSendHistogramEnabled",
                  "clientStreamSendHistogramOpts", "clientStreamSendHistogram",
                  opts)
    /\ UNCHANGED <<sm, calls, ch, enabling>>

EnableMsgSizeReceivedBytesHistogram(opts) ==
    /\ cm' = enableClientHistogram(cm, "clientMsgSizeReceivedHistogramEnabled",
                  "clientMsgSizeReceivedHistogramOpts",
                  "clientMsgSizeReceivedHistogram", opts)
    /\ UNCHANGED <<sm, calls, ch, enabling>>

EnableMsgSizeSentBytesHistogram(opts) ==
    /\ cm' = enableClientHistogram(cm, "clientMsgSizeSentHistogramEnabled",
                  "clientMsgSizeSentHistogramOpts",
                  "clientMsgSizeSentHistogram", opts)
    /\ UNCHANGED <<sm, calls, ch, enabling>>

\* UnaryClientInterceptor before the invoker: newClientReporter and
\* monitor.SentMessage().
UnaryClientBeforeInvoker_NoSent(m, monitor) == newClientReporter(m, monitor)
UnaryClientBeforeInvoker(m, monitor) ==
    ClientSentMessage(newClientReporter(m, monitor), monitor)

\* UnaryClientInterceptor, up to the call of the invoker.
UnaryClientInterceptor(c, method) ==
    /\ Arrives(c)
    /\ LET monitor == Reporter(Unary, method)
       IN  /\ cm' = UnaryClientBeforeInvoker(cm, monitor)
           /\ calls' = [calls EXCEPT ![c] =
                  [@ EXCEPT !.pc = "wrapped", !.role = "client",
                            !.monitor = monitor, !.invoked = @ + 1]]
    /\ UNCHANGED <<sm, ch, enabling>>

\* UnaryClientInterceptor after the invoker: monitor.ReceivedMessage() if
\* err == nil, then monitor.Handled(st.Code()) for st of status.FromError(err).
UnaryClientAfterInvoker_EOFIsOK(m, monitor, err) ==
    LET received == IF err = nil THEN ClientReceivedMessage(m, monitor) ELSE m
    IN  ClientHandled(received, monitor,
                      IF err = EOF THEN OK ELSE FromErrorCode(err))
UnaryClientAfterInvoker(m, monitor, err) ==
    LET received == IF err = nil THEN ClientReceivedMessage(m, monitor) ELSE m
    IN  ClientHandled(received, monitor, FromErrorCode(err))

\* UnaryClientInterceptor, from the return of the invoker.
UnaryClientReturn(c, err) ==
    /\ calls[c].pc = "wrapped"
    /\ calls[c].role = "client"
    /\ ~calls[c].stream
    /\ cm' = UnaryClientAfterInvoker(cm, calls[c].monitor, err)
    /\ calls' = [calls EXCEPT ![c] =
           [@ EXCEPT !.pc = "done", !.handled = @ + 1,
                     !.wrapped = Result("none", err),
                     !.returned = Returned("none", err)]]
    /\ UNCHANGED <<sm, ch, enabling>>

\* StreamClientInterceptor, up to the call of the streamer.
StreamClientInterceptor(c, desc, method) ==
    /\ Arrives(c)
    /\ LET monitor == Reporter(clientStreamType(desc), method)
       IN  /\ cm' = newClientReporter(cm, monitor)
           /\ calls' = [calls EXCEPT ![c] =
                  [@ EXCEPT !.pc = "wrapped", !.role = "client",
                            !.stream = TRUE, !.desc = desc,
                            !.monitor = monitor, !.invoked = @ + 1]]
    /\ UNCHANGED <<sm, ch, enabling>>

\* StreamClientInterceptor, from the return of the streamer, which gives a
\* stream and no error, or no stream and an error.
StreamClientReturn_NoHandledOnError(c, err) ==
    /\ calls[c].pc = "wrapped"
    /\ calls[c].role = "client"
    /\ calls[c].stream
    /\ IF err # nil
       THEN /\ cm' = cm
            /\ calls' = [calls EXCEPT ![c] =
                   [@ EXCEPT !.pc = "done",
                             !.wrapped = Result("nil", err),
                             !.returned = Returned("nil", err)]]
       ELSE /\ cm' = cm
            /\ calls' = [calls EXCEPT ![c] =
                   [@ EXCEPT !.pc = "open",
                             !.wrapped = Result("clientStream", nil),
                             !.returned = monitoredClientStream("clientStream")]]
    /\ UNCHANGED <<sm, ch, enabling>>

StreamClientReturn(c, err) ==
    /\ calls[c].pc = "wrapped"
    /\ calls[c].role = "client"
    /\ calls[c].stream
    /\ IF err # nil
       THEN /\ cm' = ClientHandled(cm, calls[c].monitor, FromErrorCode(err))
            /\ calls' = [calls EXCEPT ![c] =
                   [@ EXCEPT !.pc = "done", !.handled = @ + 1,
                             !.wrapped = Result("nil", err),
                             !.returned = Returned("nil", err)]]
       ELSE /\ cm' = cm
            /\ calls' = [calls EXCEPT ![c] =
                   [@ EXCEPT !.pc = "open",
                             !.wrapped = Result("clientStream", nil),
                             !.returned = monitoredClientStream("clientStream")]]
    /\ UNCHANGED <<sm, ch, enabling>>

\* monitoredClientStream.SendMsg around s.ClientStream.SendMsg(m): the timer,
\* and s.monitor.SentMessage() if err == nil.
monitoredClientSendMsg_CountsFailed(m, monitor, err) ==
    ClientSentMessage(SendMessageTimer(m, monitor), monitor)
monitoredClientSendMsg_HandledOnError(m, monitor, err) ==
    LET timed == SendMessageTimer(m, monitor)
    IN  IF err = nil THEN ClientSentMessage(timed, monitor)
        ELSE ClientHandled(timed, monitor, FromErrorCode(err))
monitoredClientSendMsg_TimesSuccessOnly(m, monitor, err) ==
    IF err = nil
    THEN ClientSentMessage(SendMessageTimer(m, monitor), monitor)
    ELSE m
monitoredClientSendMsg(m, monitor, err) ==
    LET timed == SendMessageTimer(m, monitor)
    IN  IF err = nil THEN ClientSentMessage(timed, monitor) ELSE timed

\* monitoredClientStream.SendMsg
ClientSendMsg(c, err, maxOps) ==
    /\ calls[c].pc = "open"
    /\ calls[c].ops < maxOps
    /\ cm' = monitoredClientSendMsg(cm, calls[c].monitor, err)
    /\ calls' = [calls EXCEPT ![c] =
           [@ EXCEPT !.ops = @ + 1,
                     !.sendOk = IF err = nil THEN @ + 1 ELSE @,
                     !.late = IF err = nil /\ calls[c].handled > 0
                              THEN @ + 1 ELSE @,
                     !.last = Op("SendMsg", err, err)]]
    /\ UNCHANGED <<sm, ch, enabling>>

\* monitoredClientStream.RecvMsg around s.ClientStream.RecvMsg(m): the timer,
\* then s.monitor.ReceivedMessage() if err == nil, s.monitor.Handled(codes.OK)
\* if err == io.EOF, and s.monitor.Handled(st.Code()) otherwise.
monitoredClientRecvMsg_EOFIsError(m, monitor, err) ==
    LET timed == ReceiveMessageTimer(m, monitor)
    IN  IF err = nil THEN ClientReceivedMessage(timed, monitor)
        ELSE ClientHandled(timed, monitor, FromErrorCode(err))
monitoredClientRecvMsg(m, monitor, err) ==
    LET timed == ReceiveMessageTimer(m, monitor)
    IN  IF err = nil THEN ClientReceivedMessage(timed, monitor)
        ELSE IF err = EOF THEN ClientHandled(timed, monitor, OK)
        ELSE ClientHandled(timed, monitor, FromErrorCode(err))

\* monitoredClientStream.RecvMsg
ClientRecvMsg(c, err, maxOps) ==
    /\ calls[c].pc = "open"
    /\ calls[c].ops < maxOps
    /\ cm' = monitoredClientRecvMsg(cm, calls[c].monitor, err)
    /\ calls' = [calls EXCEPT ![c] =
           [@ EXCEPT !.ops = @ + 1,
                     !.recvOk = IF err = nil THEN @ + 1 ELSE @,
                     !.handled = IF err = nil THEN @ ELSE @ + 1,
                     !.late = IF err = nil /\ calls[c].handled > 0
                              THEN @ + 1 ELSE @,
                     !.last = Op("RecvMsg", err, err)]]
    /\ UNCHANGED <<sm, ch, enabling>>

(***************************************************************************)
(* Describe and Collect.  What is sent to the channel is given as the      *)
(* sequence of the collectors that sent to it, named by their field.       *)
(***************************************************************************)
\* m.<histogram>.Describe(ch) / .Collect(ch): a method call on the
\* *HistogramVec the field holds, which panics when the field is nil.
NilDereference == "nil pointer dereference"

SendAll(histogram, name) ==
    IF histogram.set THEN <<name>> ELSE <<NilDereference>>

\* ServerMetrics.Describe
serverDescribe(m) ==
    << "serverStartedCounter", "serverHandledCounter",
       "serverStreamMsgReceived", "serverStreamMsgSent" >>
    \o (IF m.serverHandledHistogramEnabled
        THEN SendAll(m.serverHandledHistogram, "serverHandledHistogram")
        ELSE << >>)

\* ServerMetrics.Collect
serverCollect(m) ==
    << "serverStartedCounter", "serverHandledCounter",
       "serverStreamMsgReceived", "serverStreamMsgSent" >>
    \o (IF m.serverHandledHistogramEnabled
        THEN SendAll(m.serverHandledHistogram, "serverHandledHistogram")
        ELSE << >>)

\* ClientMetrics.Describe
clientDescribe(m) ==
    << "clientStartedCounter", "clientHandledCounter",
       "clientStreamMsgReceived", "clientStreamMsgSent" >>
    \o (IF m.clientHandledHistogramEnabled
        THEN SendAll(m.clientHandledHistogram, "clientHandledHistogram")
        ELSE << >>)
    \o (IF m.clientStreamRecvHistogramEnabled
        THEN SendAll(m.clientStreamRecvHistogram, "clientStreamRecvHistogram")
        ELSE << >>)
    \o (IF m.clientStreamSendHistogramEnabled
        THEN SendAll(m.clientStreamSendHistogram, "clientStreamSendHistogram")
        ELSE << >>)
    \o (IF m.clientMsgSizeReceivedHistogramEnabled
        THEN SendAll(m.clientMsgSizeReceivedHistogram,
                     "clientMsgSizeReceivedHistogram")
        ELSE << >>)
    \o (IF m.clientMsgSizeSentHistogramEnabled
        THEN SendAll(m.clientMsgSizeSentHistogram, "clientMsgSizeSentHistogram")
        ELSE << >>)

\* ClientMetrics.Collect
clientCollect_OmitsMsgSize(m) ==
    << "clientStartedCounter", "clientHandledCounter",
       "clientStreamMsgReceived", "clientStreamMsgSent" >>
    \o (IF m.clientHandledHistogramEnabled
        THEN SendAll(m.clientHandledHistogram, "clientHandledHistogram")
        ELSE << >>)
    \o (IF m.clientStreamRecvHistogramEnabled
        THEN SendAll(m.clientStreamRecvHistogram, "clientStreamRecvHistogram")
        ELSE << >>)
    \o (IF m.clientStreamSendHistogramEnabled
        THEN SendAll(m.clientStreamSendHistogram, "clientStreamSendHistogram")
        ELSE << >>)
clientCollect(m) ==
    << "clientStartedCounter", "clientHandledCounter",
       "clientStreamMsgReceived", "clientStreamMsgSent" >>
    \o (IF m.clientHandledHistogramEnabled
        THEN SendAll(m.clientHandledHistogram, "clientHandledHistogram")
        ELSE << >>)
    \o (IF m.clientStreamRecvHistogramEnabled
        THEN SendAll(m.clientStreamRecvHistogram, "clientStreamRecvHistogram")
        ELSE << >>)
    \o (IF m.clientStreamSendHistogramEnabled
        THEN SendAll(m.clientStreamSendHistogram, "clientStreamSendHistogram")
        ELSE << >>)
    \o (IF m.clientMsgSizeReceivedHistogramEnabled
        THEN SendAll(m.clientMsgSizeReceivedHistogram,
                     "clientMsgSizeReceivedHistogram")
        ELSE << >>)
    \o (IF m.clientMsgSizeSentHistogramEnabled
        THEN SendAll(m.clientMsgSizeSentHistogram, "clientMsgSizeSentHistogram")
        ELSE << >>)

(***************************************************************************)
(* An Enable...Histogram call that runs while other goroutines read the    *)
(* registry.  The method takes no lock and its fields are plain fields:    *)
(* it applies the options and tests the flag, and its two stores, of the   *)
(* histogram (if the flag was false) and of the flag, are not ordered for  *)
(* a goroutine that reads the fields without synchronisation, which may    *)
(* see either of them first.                                               *)
(***************************************************************************)
\* The optional histograms: the registry and the fields of each.
Histogram(role, enabled, histogramOpts, histogram) ==
    [role |-> role, enabled |-> enabled, opts |-> histogramOpts,
     histogram |-> histogram]

ServerHistograms ==
    { Histogram("server", "serverHandledHistogramEnabled",
                "serverHandledHistogramOpts", "serverHandledHistogram") }

ClientTimeHistograms ==
    { Histogram("client", "clientHandledHistogramEnabled",
                "clientHandledHistogramOpts", "clientHandledHistogram"),
      Histogram("client", "clientStreamRecvHistogramEnabled",
                "clientStreamRecvHistogramOpts", "clientStreamRecvHistogram"),
      Histogram("client", "clientStreamSendHistogramEnabled",
                "clientStreamSendHistogramOpts", "clientStreamSendHistogram") }

ClientMsgSizeHistograms ==
    { Histogram("client", "clientMsgSizeReceivedHistogramEnabled",
                "clientMsgSizeReceivedHistogramOpts",
                "clientMsgSizeReceivedHistogram"),
      Histogram("client", "clientMsgSizeSentHistogramEnabled",
                "clientMsgSizeSentHistogramOpts",
                "clientMsgSizeSentHistogram") }

Histograms ==
    ServerHistograms \cup ClientTimeHistograms \cup ClientMsgSizeHistograms

\* Enable...Histogram(opts...) up to its stores: `for _, o := range opts`,
\* `if !m.<histogram>Enabled { ... prom.NewHistogramVec(...) }`.
EnableBegin(h, opts) ==
    /\ enabling = NoEnable
    /\ LET m == IF h.role = "server" THEN sm ELSE cm
           o == applyOpts(m[h.opts], opts)
           applied == [m EXCEPT ![h.opts] = o]
       IN  /\ enabling' =
                  [role |-> h.role, enabled |-> h.enabled,
                   histogram |-> h.histogram,
                   created |-> NewHistogramVec(o),
                   stores |-> IF ~m[h.enabled]
                              THEN {h.histogram, h.enabled} ELSE {h.enabled}]
           /\ IF h.role = "server"
              THEN sm' = applied /\ cm' = cm
              ELSE cm' = applied /\ sm' = sm
    /\ UNCHANGED <<calls, ch>>

\* One of the stores `m.<histogram> = ...` and `m.<histogram>Enabled = true`
\* of the call under way reaches the other goroutines.
EnableStore(field) ==
    /\ field \in enabling.stores
    /\ LET m == IF enabling.role = "server" THEN sm ELSE cm
           stored == [m EXCEPT ![field] = IF field = enabling.enabled
                                          THEN TRUE ELSE enabling.created]
       IN  IF enabling.role = "server"
           THEN sm' = stored /\ cm' = cm
           ELSE cm' = stored /\ sm' = sm
    /\ enabling' = IF enabling.stores = {field} THEN NoEnable
                   ELSE [enabling EXCEPT !.stores = @ \ {field}]
    /\ UNCHANGED <<calls, ch>>

Scrape(by, sent) == [by |-> by, sent |-> sent]

ServerDescribe ==
    /\ ch' = Scrape("ServerMetrics.Describe", serverDescribe(sm))
    /\ UNCHANGED <<sm, cm, calls, enabling>>

ServerCollect ==
    /\ ch' = Scrape("ServerMetrics.Collect", serverCollect(sm))
    /\ UNCHANGED <<sm, cm, calls, enabling>>

ClientDescribe ==
    /\ ch' = Scrape("ClientMetrics.Describe", clientDescribe(cm))
    /\ UNCHANGED <<sm, cm, calls, enabling>>

ClientCollect ==
    /\ ch' = Scrape("ClientMetrics.Collect", clientCollect(cm))
    /\ UNCHANGED <<sm, cm, calls, enabling>>

(***************************************************************************)
(* Specifications                                                          *)
(***************************************************************************)
ServerCall(c, maxOps) ==
    \/ \E fullMethod \in UnaryMethods : UnaryServerInterceptor(c, fullMethod)
    \/ \E resp \in Responses, err \in Errors : UnaryServerReturn(c, resp, err)
    \/ \E info \in StreamInfos : StreamServerInterceptor(c, info)
    \/ \E err \in Errors : ServerSendMsg(c, err, maxOps)
    \/ \E err \in Errors : ServerRecvMsg(c, err, maxOps)
    \/ \E err \in Errors : StreamServerReturn(c, err)

ClientCall(c, maxOps) ==
    \/ \E method \in UnaryMethods : UnaryClientInterceptor(c, method)
    \/ \E err \in Errors : UnaryClientReturn(c, err)
    \/ \E info \in StreamInfos :
           StreamClientInterceptor(c, StreamDesc(info), info.FullMethod)
    \/ \E err \in Errors : StreamClientReturn(c, err)
    \/ \E err \in Errors : ClientSendMsg(c, err, maxOps)
    \/ \E err \in Errors : ClientRecvMsg(c, err, maxOps)

\* Every interceptor and both decorated streams, MaxCalls calls of at most
\* MaxOps messages each.
Next ==
    \/ \E c \in Calls : ServerCall(c, MaxOps)
    \/ \E c \in Calls : ClientCall(c, MaxOps)

Spec == Init /\ [][Next]_vars

\* One streaming call, of the server or of the client, of at most
\* ScenarioOps messages.
StreamCall(c, maxOps) ==
    \/ \E info \in StreamInfos : StreamServerInterceptor(c, info)
    \/ \E err \in Errors : ServerSendMsg(c, err, maxOps)
    \/ \E err \in Errors : ServerRecvMsg(c, err, maxOps)
    \/ \E err \in Errors : StreamServerReturn(c, err)
    \/ \E info \in StreamInfos :
           StreamClientInterceptor(c, StreamDesc(info), info.FullMethod)
    \/ \E err \in Errors : StreamClientReturn(c, err)
    \/ \E err \in Errors : ClientSendMsg(c, err, maxOps)
    \/ \E err \in Errors : ClientRecvMsg(c, err, maxOps)

NextStream == StreamCall(1, ScenarioOps)

SpecStream == Init /\ [][NextStream]_vars

\* The server: one call, the pre-registration of its methods and the
\* enabling of its histogram, with no, one or two bucket options.
HistogramOpts ==
    {<< >>} \cup {<<b>> : b \in Buckets} \cup {<<a, b>> : a, b \in Buckets}

NextServer ==
    \/ ServerCall(1, MaxOps)
    \/ InitializeMetrics
    \/ \E opts \in HistogramOpts : EnableHandlingTimeHistogram(opts)

SpecServer == Init /\ [][NextServer]_vars

\* ConcurrentCalls calls in flight at the same time, of the server and of the
\* client, to one unary and one streaming method, so that calls share their
\* label tuple; each of at most MaxOps messages.
ConcurrentCallIds == 1..ConcurrentCalls

InitConcurrent ==
    /\ sm = NewServerMetrics
    /\ cm = NewClientMetrics
    /\ calls = [c \in ConcurrentCallIds |-> IdleCall]
    /\ ch = NoScrape
    /\ enabling = NoEnable

ConcurrentUnaryMethod == FullMethod("svc", "Ping")
ConcurrentStreamInfo ==
    [FullMethod     |-> FullMethod("svc", "PingStream"),
     IsClientStream |-> TRUE,
     IsServerStream |-> TRUE]
ConcurrentErrors == {nil, EOF}

ConcurrentCall(c) ==
    \/ UnaryServerInterceptor(c, ConcurrentUnaryMethod)
    \/ \E err \in ConcurrentErrors : UnaryServerReturn(c, "resp", err)
    \/ StreamServerInterceptor(c, ConcurrentStreamInfo)
    \/ \E err \in ConcurrentErrors : ServerSendMsg(c, err, MaxOps)
    \/ \E err \in ConcurrentErrors : ServerRecvMsg(c, err, MaxOps)
    \/ \E err \in ConcurrentErrors : StreamServerReturn(c, err)
    \/ UnaryClientInterceptor(c, ConcurrentUnaryMethod)
    \/ \E err \in ConcurrentErrors : UnaryClientReturn(c, err)
    \/ StreamClientInterceptor(c, StreamDesc(ConcurrentStreamInfo),
                               ConcurrentStreamInfo.FullMethod)
    \/ \E err \in ConcurrentErrors : StreamClientReturn(c, err)
    \/ \E err \in ConcurrentErrors : ClientSendMsg(c, err, MaxOps)
    \/ \E err \in ConcurrentErrors : ClientRecvMsg(c, err, MaxOps)

NextConcurrent == \E c \in ConcurrentCallIds : ConcurrentCall(c)

SpecConcurrent == InitConcurrent /\ [][NextConcurrent]_vars

\* The enabling of the server's histogram and of the client's three time
\* histograms, with no, one or two bucket options, while one call is served
\* and observed.
NextEnable ==
    \/ ConcurrentCall(1)
    \/ \E opts \in HistogramOpts : EnableHandlingTimeHistogram(opts)
    \/ \E opts \in HistogramOpts : EnableClientHandlingTimeHistogram(opts)
    \/ \E opts \in HistogramOpts : EnableClientStreamReceiveTimeHistogram(opts)
    \/ \E opts \in HistogramOpts : EnableClientStreamSendTimeHistogram(opts)

SpecEnable == Init /\ [][NextEnable]_vars

\* Describe and Collect of both registries, called at any time while the
\* histograms are enabled one after the other and one call is served.
NextCollector ==
    \/ ConcurrentCall(1)
    \/ EnableHandlingTimeHistogram(<< >>)
    \/ EnableClientHandlingTimeHistogram(<< >>)
    \/ EnableClientStreamReceiveTimeHistogram(<< >>)
    \/ EnableClientStreamSendTimeHistogram(<< >>)
    \/ EnableMsgSizeReceivedBytesHistogram(<< >>)
    \/ EnableMsgSizeSentBytesHistogram(<< >>)
    \/ ServerDescribe
    \/ ServerCollect
    \/ ClientDescribe
    \/ ClientCollect

SpecCollector == Init /\ [][NextCollector]_vars

\* One streaming call, of the server or of the client, that comes with any
\* combination of the two streaming flags.
NextShape ==
    \/ \E info \in AnyStreamInfos : StreamServerInterceptor(1, info)
    \/ \E err \in Errors : ServerSendMsg(1, err, MaxOps)
    \/ \E err \in Errors : ServerRecvMsg(1, err, MaxOps)
    \/ \E err \in Errors : StreamServerReturn(1, err)
    \/ \E info \in AnyStreamInfos :
           StreamClientInterceptor(1, StreamDesc(info), info.FullMethod)
    \/ \E err \in Errors : StreamClientReturn(1, err)
    \/ \E err \in Errors : ClientSendMsg(1, err, MaxOps)
    \/ \E err \in Errors : ClientRecvMsg(1, err, MaxOps)

SpecShape == Init /\ [][NextShape]_vars

\* Enable...Histogram calls, one at a time and statement by statement, while
\* Describe and Collect run in other goroutines.
HistogramFields ==
    {h.histogram : h \in Histograms} \cup {h.enabled : h \in Histograms}

NextEnableRace ==
    \/ \E h \in Histograms : EnableBegin(h, << >>)
    \/ \E field \in HistogramFields : EnableStore(field)
    \/ ServerDescribe
    \/ ServerCollect
    \/ ClientDescribe
    \/ ClientCollect

SpecEnableRace == Init /\ [][NextEnableRace]_vars

\* One client stream of at most TimedOps messages, while the histograms of
\* the send and of the receive time are enabled.
NextTimed ==
    \/ \E info \in StreamInfos :
           StreamClientInterceptor(1, StreamDesc(info), info.FullMethod)
    \/ \E err \in Errors : StreamClientReturn(1, err)
    \/ \E err \in Errors : ClientSendMsg(1, err, TimedOps)
    \/ \E err \in Errors : ClientRecvMsg(1, err, TimedOps)
    \/ EnableClientStreamReceiveTimeHistogram(<< >>)
    \/ EnableClientStreamSendTimeHistogram(<< >>)

SpecTimed == Init /\ [][NextTimed]_vars

(***************************************************************************)
(* What the properties read                                                *)
(***************************************************************************)
\* The counters of a role.
Started(role) ==
    IF role = "server" THEN sm.serverStartedCounter ELSE cm.clientStartedCounter
HandledCounter(role) ==
    IF role = "server" THEN sm.serverHandledCounter ELSE cm.clientHandledCounter
MsgReceived(role) ==
    IF role = "server" THEN sm.serverStreamMsgReceived
    ELSE cm.clientStreamMsgReceived
MsgSent(role) ==
    IF role = "server" THEN sm.serverStreamMsgSent ELSE cm.clientStreamMsgSent

RECURSIVE SumOver(_, _)
SumOver(f, S) ==
    IF S = {} THEN 0
    ELSE LET x == CHOOSE y \in S : TRUE IN f[x] + SumOver(f, S \ {x})

\* The handled counter of a label tuple, summed over all status codes.
HandledTotal(role, r) ==
    SumOver([code \in allCodes |->
                Value(HandledCounter(role), LabelsWithCode(r, code))], allCodes)

\* The calls of a role and label tuple that have entered their interceptor.
CallsOf(role, r) ==
    {c \in DOMAIN calls : calls[c].pc # "idle" /\ calls[c].role = role
                          /\ calls[c].monitor = r}

Roles == {"server", "client"}
Monitors ==
    {calls[c].monitor : c \in {d \in DOMAIN calls : calls[d].pc # "idle"}}

(***************************************************************************)
(* C1: every intercepted call, whatever its outcome, causes exactly one    *)
(* increment of the started counter and exactly one increment of the       *)
(* handled counter (summed over the status codes) of its label tuple: for  *)
(* every role and label tuple, started counts the calls that have entered  *)
(* their interceptor, handled never counts more than these, and counts     *)
(* every call that has returned.                                           *)
(***************************************************************************)
C1_OneStartedOneHandled ==
    \A role \in Roles, r \in Monitors :
        LET cs == CallsOf(role, r)
        IN  /\ Value(Started(role), Labels(r)) = Cardinality(cs)
            /\ HandledTotal(role, r) <= Cardinality(cs)
            /\ HandledTotal(role, r) >=
                   Cardinality({c \in cs : calls[c].pc = "done"})

(***************************************************************************)
(* C2: on a decorated client stream Handled is invoked at most once, for   *)
(* any sequence of SendMsg and RecvMsg calls: a RecvMsg that observes the  *)
(* end of the stream or an error after an earlier RecvMsg observed one     *)
(* does not report the call as handled a second time.                      *)
(***************************************************************************)
C2_ClientStreamHandledAtMostOnce ==
    \A c \in Calls :
        (calls[c].role = "client" /\ calls[c].stream) => calls[c].handled <= 1

\* The events of the reporters are the increments of the handled counters.
HandledEventsAreCounted ==
    \A role \in Roles :
        SumOver([c \in Calls |-> IF calls[c].role = role
                                    THEN calls[c].handled ELSE 0], Calls)
        = SumOver(HandledCounter(role), DOMAIN HandledCounter(role))

(***************************************************************************)
(* C3: every interceptor invokes its handler, invoker or streamer exactly  *)
(* once and returns the error it returned, with the response it returned   *)
(* (a client stream comes back inside its monitoredClientStream, and only  *)
(* when there is no error); every decorated SendMsg and RecvMsg returns    *)
(* the error of the underlying stream method.  No error is suppressed,     *)
(* replaced or created.                                                    *)
(***************************************************************************)
C3_WrappedOnceResultUnchanged ==
    \A c \in Calls :
        /\ calls[c].pc # "idle" => calls[c].invoked = 1
        /\ calls[c].pc \in {"open", "done"} =>
              /\ calls[c].returned.err = calls[c].wrapped.err
              /\ calls[c].returned.resp = calls[c].wrapped.resp
              /\ calls[c].returned.by = "monitoredClientStream" <=>
                     (calls[c].role = "client" /\ calls[c].stream
                      /\ calls[c].wrapped.err = nil)
        /\ calls[c].last.ret = calls[c].last.under

\* An interceptor has returned the error of its handler, invoker or streamer.
C3_Witness ==
    \E c \in Calls :
        /\ calls[c].pc = "done"
        /\ calls[c].invoked = 1
        /\ calls[c].wrapped.err = PlainError
        /\ calls[c].returned.err = PlainError

(***************************************************************************)
(* C4: a unary call whose handler or invoker returns no error increases    *)
(* the started counter, the messages-received counter, the messages-sent   *)
(* counter and the handled counter of OK of (Unary, service, method) by    *)
(* exactly one each, on the server and on the client: where every unary    *)
(* call of a label tuple has returned without error, each of the four      *)
(* counters equals the number of these calls.                              *)
(***************************************************************************)
UnaryCallsOf(role, r) == {c \in CallsOf(role, r) : ~calls[c].stream}

AllSucceeded(cs) ==
    \A c \in cs : calls[c].pc = "done" /\ calls[c].wrapped.err = nil

C4_SuccessfulUnaryCountsOnce ==
    \A role \in Roles, r \in Monitors :
        LET cs == UnaryCallsOf(role, r)
        IN  (r.rpcType = Unary /\ AllSucceeded(cs)) =>
               /\ Value(Started(role), Labels(r)) = Cardinality(cs)
               /\ Value(MsgReceived(role), Labels(r)) = Cardinality(cs)
               /\ Value(MsgSent(role), Labels(r)) = Cardinality(cs)
               /\ Value(HandledCounter(role), LabelsWithCode(r, OK))
                      = Cardinality(cs)
               /\ HandledTotal(role, r) = Cardinality(cs)

\* A unary call has returned without error.
C4_Witness ==
    \E c \in Calls :
        /\ calls[c].pc = "done"
        /\ ~calls[c].stream
        /\ calls[c].wrapped.err = nil
        /\ AllSucceeded(UnaryCallsOf(calls[c].role, calls[c].monitor))

(***************************************************************************)
(* C5: on a decorated stream, of the server or of the client, the          *)
(* messages-sent counter increases by the number of SendMsg calls that     *)
(* succeeded and the messages-received counter by the number of RecvMsg    *)
(* calls that succeeded; a SendMsg or RecvMsg that returns an error, the   *)
(* end of the stream included, increments neither.                         *)
(***************************************************************************)
StreamCallsOf(role, r) == {c \in CallsOf(role, r) : calls[c].stream}

C5_MessagesCountedPerSuccess ==
    \A role \in Roles, r \in Monitors :
        LET cs == StreamCallsOf(role, r)
        IN  r.rpcType # Unary =>
               /\ Value(MsgSent(role), Labels(r))
                      = SumOver([c \in Calls |-> calls[c].sendOk], cs)
               /\ Value(MsgReceived(role), Labels(r))
                      = SumOver([c \in Calls |-> calls[c].recvOk], cs)

\* A stream on which two sends and a receive succeeded and two attempts
\* failed, the last one among them.
C5_Witness ==
    \E c \in Calls :
        /\ calls[c].stream
        /\ calls[c].sendOk = 2
        /\ calls[c].recvOk = 1
        /\ calls[c].ops = 5
        /\ calls[c].last.ret # nil

(***************************************************************************)
(* C6: on a unary call the status code of the handled counter is a         *)
(* function of the returned error: OK for no error, X for an error that    *)
(* carries the status code X, Unknown for an error that carries no status. *)
(* The handled counter of that code increases by one and that of every     *)
(* other code stays as it is: for every code, the handled counter of a     *)
(* unary label tuple counts the calls that returned an error of that code. *)
(***************************************************************************)
StatusCodeOf(err) ==
    CASE err.kind = "nil" -> OK
      [] err.kind = "status" -> err.code
      [] OTHER -> Unknown

C6_UnaryCodeFromError ==
    \A role \in Roles, r \in Monitors, code \in allCodes :
        r.rpcType = Unary =>
            Value(HandledCounter(role), LabelsWithCode(r, code))
              = Cardinality({c \in UnaryCallsOf(role, r) :
                                /\ calls[c].pc = "done"
                                /\ StatusCodeOf(calls[c].returned.err) = code})

\* A unary call has returned an error that carries no status.
C6_Witness ==
    \E c \in Calls :
        /\ calls[c].pc = "done"
        /\ ~calls[c].stream
        /\ calls[c].returned.err = EOF
        /\ Value(HandledCounter(calls[c].role),
                 LabelsWithCode(calls[c].monitor, Unknown)) = 1

(***************************************************************************)
(* C7: after a unary call whose handler or invoker returned a NotFound     *)
(* status, on the server and on the client alike, the handled counter of   *)
(* (Unary, service, method, NotFound) is 1 and the messages-sent counter   *)
(* of (Unary, service, method) is still 0.                                 *)
(***************************************************************************)
\* The only call of its role and label tuple, returned with NotFound.
OnlyCallNotFound(c) ==
    /\ calls[c].pc = "done"
    /\ ~calls[c].stream
    /\ calls[c].returned.err = StatusError(NotFound)
    /\ CallsOf(calls[c].role, calls[c].monitor) = {c}

C7_NotFoundSentUnchanged ==
    \A c \in Calls :
        OnlyCallNotFound(c) =>
            /\ Value(HandledCounter(calls[c].role),
                     LabelsWithCode(calls[c].monitor, NotFound)) = 1
            /\ Value(MsgSent(calls[c].role), Labels(calls[c].monitor)) = 0

(***************************************************************************)
(* C7, amended: after such a call the handled counter of NotFound is 1;    *)
(* on the server the messages-sent counter is still 0 (and the             *)
(* messages-received counter 1); on the client the messages-sent counter   *)
(* is 1, the request being counted before the invoker runs, and the        *)
(* messages-received counter is still 0.                                   *)
(***************************************************************************)
C7_NotFoundByRole ==
    \A c \in Calls :
        OnlyCallNotFound(c) =>
            LET role == calls[c].role
                r == calls[c].monitor
            IN  /\ Value(HandledCounter(role), LabelsWithCode(r, NotFound)) = 1
                /\ HandledTotal(role, r) = 1
                /\ Value(MsgSent(role), Labels(r))
                       = IF role = "server" THEN 0 ELSE 1
                /\ Value(MsgReceived(role), Labels(r))
                       = IF role = "server" THEN 1 ELSE 0

\* A unary client call has returned NotFound.
C7_Witness ==
    \E c \in Calls : OnlyCallNotFound(c) /\ calls[c].role = "client"

(***************************************************************************)
(* C8: on a decorated client stream a RecvMsg that returns the end of the  *)
(* stream reports the call as handled with OK, a RecvMsg that returns any  *)
(* other error reports it as handled with the status code of that error,   *)
(* and a RecvMsg that succeeds reports no terminal event.  So a stream     *)
(* with 3 successful sends, 2 successful receives and then a clean end of  *)
(* the stream ends with sent = 3, received = 2, handled of OK = 1 and no   *)
(* other handled code incremented.                                         *)
(***************************************************************************)
ClientRecvMsgStep(c) ==
    /\ calls[c].role = "client"
    /\ calls[c].pc = "open"
    /\ calls'[c].ops = calls[c].ops + 1
    /\ calls'[c].last.op = "RecvMsg"

TerminalCodes(err) ==
    IF err = nil THEN {}
    ELSE IF err = EOF THEN {OK}
    ELSE {StatusCodeOf(err)}

ScenarioC(c) ==
    /\ calls[c].role = "client"
    /\ calls[c].pc = "open"
    /\ calls[c].monitor.rpcType = BidiStream
    /\ calls[c].sendOk = 3
    /\ calls[c].recvOk = 2
    /\ calls[c].ops = 6
    /\ calls[c].last = Op("RecvMsg", EOF, EOF)
    /\ CallsOf("client", calls[c].monitor) = {c}

C8_ScenarioCCounters ==
    \A c \in Calls :
        ScenarioC(c) =>
            LET r == calls[c].monitor
            IN  /\ Value(cm.clientStreamMsgSent, Labels(r)) = 3
                /\ Value(cm.clientStreamMsgReceived, Labels(r)) = 2
                /\ Value(cm.clientHandledCounter, LabelsWithCode(r, OK)) = 1
                /\ HandledTotal("client", r) = 1

C8_ClientRecvTerminal ==
    /\ [][\A c \in Calls :
            ClientRecvMsgStep(c) =>
                \A code \in allCodes :
                    Value(cm'.clientHandledCounter,
                          LabelsWithCode(calls[c].monitor, code))
                    = Value(cm.clientHandledCounter,
                            LabelsWithCode(calls[c].monitor, code))
                      + (IF code \in TerminalCodes(calls'[c].last.ret)
                         THEN 1 ELSE 0)]_vars
    /\ []C8_ScenarioCCounters

\* The stream of the scenario: three sends and two receives succeeded and
\* the sixth call, a RecvMsg, returned the end of the stream.
C8_Witness == \E c \in Calls : ScenarioC(c)

(***************************************************************************)
(* C9: enabling the handling-time histogram after InitializeMetrics has    *)
(* pre-registered the server's methods still gives a zero-valued histogram *)
(* series for every pre-registered (type, service, method), as enabling it *)
(* before the pre-registration does: whenever the methods are              *)
(* pre-registered and the histogram is enabled, every method has its       *)
(* histogram series.                                                       *)
(***************************************************************************)
\* The label tuples of the server's methods.
MethodLabels ==
    UNION { { <<typeFromMethodInfo(mi), s, mi.Name>> : mi \in ServiceInfo[s] } :
            s \in Services }

\* InitializeMetrics has run: no call creates the handled series of every
\* status code.
Initialized ==
    \A lvs \in MethodLabels, code \in allCodes :
        <<lvs[1], lvs[2], lvs[3], code>> \in DOMAIN sm.serverHandledCounter

\* The registry InitializeMetrics would leave.
AfterInitializeMetrics(m) ==
    preRegisterServices(m, ServiceInfo, DOMAIN ServiceInfo)

C9_HistogramSeriesAfterLateEnable ==
    (Initialized /\ sm.serverHandledHistogramEnabled) =>
        \A lvs \in MethodLabels : lvs \in DOMAIN sm.serverHandledHistogram.series

(***************************************************************************)
(* C9, amended: enabling the handling-time histogram, after                *)
(* InitializeMetrics as at any other time, gives a histogram without any   *)
(* series; the zero-valued histogram series of the pre-registered label    *)
(* tuples come from InitializeMetrics running while the histogram is       *)
(* enabled: when it is enabled before the pre-registration, or when        *)
(* InitializeMetrics runs again after the enabling.                        *)
(***************************************************************************)
HistogramSeries(m) == DOMAIN m.serverHandledHistogram.series

C9_HistogramSeriesFromInitializeMetrics ==
    /\ [][(~sm.serverHandledHistogramEnabled /\ sm'.serverHandledHistogramEnabled)
            => HistogramSeries(sm') = {}]_vars
    /\ [][(~Initialized /\ Initialized' /\ sm.serverHandledHistogramEnabled)
            => \A lvs \in MethodLabels :
                  /\ lvs \in HistogramSeries(sm')
                  /\ sm'.serverHandledHistogram.series[lvs]
                         = Value(sm.serverHandledHistogram.series, lvs)]_vars
    /\ [](sm.serverHandledHistogramEnabled =>
             \A lvs \in MethodLabels :
                 lvs \in HistogramSeries(AfterInitializeMetrics(sm)))

\* The histogram was enabled after the pre-registration and has no series.
C9_Witness ==
    /\ Initialized
    /\ sm.serverHandledHistogramEnabled
    /\ HistogramSeries(sm) = {}
    /\ calls[1].pc = "idle"

(***************************************************************************)
(* C10: pre-registration is idempotent and preserves values: running       *)
(* InitializeMetrics again with the same methods, whether or not calls     *)
(* were handled in between, creates no series and changes no value.  In    *)
(* every state InitializeMetrics leaves a registry that a further          *)
(* InitializeMetrics leaves as it is and in which every series of the      *)
(* methods exists; once they exist they keep existing as calls are         *)
(* handled; and where they exist InitializeMetrics changes nothing.        *)
(***************************************************************************)
\* Every series InitializeMetrics refers to exists in the registry m.
PreRegistered(m) ==
    \A lvs \in MethodLabels :
        /\ lvs \in DOMAIN m.serverStartedCounter
        /\ lvs \in DOMAIN m.serverStreamMsgReceived
        /\ lvs \in DOMAIN m.serverStreamMsgSent
        /\ m.serverHandledHistogramEnabled =>
               lvs \in DOMAIN m.serverHandledHistogram.series
        /\ \A code \in allCodes :
               <<lvs[1], lvs[2], lvs[3], code>> \in DOMAIN m.serverHandledCounter

Fresh == \A c \in Calls : calls[c].pc = "idle"

CounterFields ==
    { "serverStartedCounter", "serverHandledCounter",
      "serverStreamMsgReceived", "serverStreamMsgSent" }

\* The vector `after` has the series of `before` with their values, and any
\* further series of it has the value 0.
ReferencedOnly(before, after) ==
    /\ DOMAIN before \subseteq DOMAIN after
    /\ \A lvs \in DOMAIN after : after[lvs] = Value(before, lvs)

C11_InitializeMetricsZeroSeries ==
    LET once == AfterInitializeMetrics(sm)
    IN  /\ PreRegistered(once)
        /\ \A f \in CounterFields : ReferencedOnly(sm[f], once[f])
        /\ ReferencedOnly(sm.serverHandledHistogram.series,
                          once.serverHandledHistogram.series)
        /\ (Fresh /\ Initialized) =>
              /\ \A lvs \in MethodLabels :
                    /\ Value(sm.serverStartedCounter, lvs) = 0
                    /\ lvs \in DOMAIN sm.serverStartedCounter
                    /\ lvs \in DOMAIN sm.serverStreamMsgReceived
                    /\ lvs \in DOMAIN sm.serverStreamMsgSent
              /\ \A f \in CounterFields :
                    \A lvs \in DOMAIN sm[f] : sm[f][lvs] = 0
              /\ \A lvs \in DOMAIN sm.serverHandledHistogram.series :
                    sm.serverHandledHistogram.series[lvs] = 0

\* InitializeMetrics has run on a fresh registry whose histogram was enabled.
C11_Witness ==
    /\ Fresh
    /\ Initialized
    /\ sm.serverHandledHistogramEnabled
    /\ \A lvs \in MethodLabels :
           /\ lvs \in DOMAIN sm.serverHandledHistogram.series
           /\ sm.serverHandledHistogram.series[lvs] = 0
           /\ sm.serverStartedCounter[lvs] = 0

(***************************************************************************)
(* C12: under any interleaving of concurrent calls that share their        *)
(* (type, service, method), their first use of it included, each label     *)
(* tuple has one series, and no increment is lost: the started counter     *)
(* equals the number of calls that have entered their interceptor, the     *)
(* messages-sent and messages-received counters equal the numbers of       *)
(* messages these calls have counted (on a stream the successful sends and *)
(* receives), and the handled counter equals the number of Handled events  *)
(* of these calls.                                                         *)
(***************************************************************************)
\* The messages a unary call has counted as sent and as received: the
\* server counts the request on entry and the response if the handler
\* returned no error, the client the request on entry and the response if
\* the invoker returned no error.
Succeeded(c) == calls[c].pc = "done" /\ calls[c].wrapped.err = nil

UnarySent(c) ==
    IF calls[c].role = "client" THEN 1 ELSE IF Succeeded(c) THEN 1 ELSE 0
UnaryReceived(c) ==
    IF calls[c].role = "server" THEN 1 ELSE IF Succeeded(c) THEN 1 ELSE 0

SentBy(c) == IF calls[c].stream THEN calls[c].sendOk ELSE UnarySent(c)
ReceivedBy(c) == IF calls[c].stream THEN calls[c].recvOk ELSE UnaryReceived(c)

EnableStep == calls' = calls /\ ch' = ch

C13_ReEnableIsNoOp ==
    [][\A h \in Histograms :
          LET before == IF h.role = "server" THEN sm ELSE cm
              after == IF h.role = "server" THEN sm' ELSE cm'
          IN  before[h.enabled] =>
                 /\ after[h.enabled]
                 /\ after[h.histogram].set
                 /\ after[h.histogram].buckets = before[h.histogram].buckets
                 /\ EnableStep => after[h.histogram] = before[h.histogram]]_vars

\* A histogram created with the default buckets holds an observation, and
\* an Enable call with a bucket option was made on it since it was created.
C13_Witness ==
    /\ cm.clientStreamSendHistogramEnabled
    /\ cm.clientStreamSendHistogramOpts = "custom"
    /\ cm.clientStreamSendHistogram.buckets = DefBuckets
    /\ cm.clientStreamSendHistogram.series # << >>

(***************************************************************************)
(* C14: in every reachable state of a registry, Describe and Collect each  *)
(* send the four mandatory counters (started, handled, messages-received,  *)
(* messages-sent), each once, and exactly the histograms whose enabled     *)
(* flag is set, nothing for a histogram that is not enabled; Describe and  *)
(* Collect agree on what they include.                                     *)
(***************************************************************************)
MandatoryCounters(role) ==
    IF role = "server"
    THEN { "serverStartedCounter", "serverHandledCounter",
           "serverStreamMsgReceived", "serverStreamMsgSent" }
    ELSE { "clientStartedCounter", "clientHandledCounter",
           "clientStreamMsgReceived", "clientStreamMsgSent" }

Registry(role) == IF role = "server" THEN sm ELSE cm

\* The collectors a scrape of the registry of a role has to include.
Included(role) ==
    MandatoryCounters(role)
    \cup { h.histogram : h \in { x \in Histograms :
                                    x.role = role /\ Registry(role)[x.enabled] } }

\* The sequence sent holds every collector of S once and nothing else.
SendsExactly(sent, S) ==
    /\ {sent[i] : i \in 1..Len(sent)} = S
    /\ Len(sent) = Cardinality(S)

RoleOf(by) ==
    IF by \in {"ServerMetrics.Describe", "ServerMetrics.Collect"}
    THEN "server" ELSE "client"

C14_DescribeCollectInclusion ==
    /\ [](/\ SendsExactly(serverDescribe(sm), Included("server"))
          /\ SendsExactly(serverCollect(sm), Included("server"))
          /\ SendsExactly(clientDescribe(cm), Included("client"))
          /\ SendsExactly(clientCollect(cm), Included("client")))
    /\ [][ch' # ch => SendsExactly(ch'.sent, Included(RoleOf(ch'.by)))]_vars

\* Collect of the client's registry has sent the counters and the one
\* histogram that is enabled, a message-size histogram.
C14_Witness ==
    /\ ch.by = "ClientMetrics.Collect"
    /\ cm.clientMsgSizeSentHistogramEnabled
    /\ \A h \in ClientTimeHistograms : ~cm[h.enabled]
    /\ ~cm.clientMsgSizeReceivedHistogramEnabled
    /\ Len(ch.sent) = 5
    /\ ch.sent[5] = "clientMsgSizeSentHistogram"

(***************************************************************************)
(* C15: the call shape is derived from the two streaming flags of the      *)
(* descriptor: both false gives Unary, client-streaming only ClientStream, *)
(* server-streaming only ServerStream, both true BidiStream, for every     *)
(* combination of the flags passed to clientStreamType and streamRpcType:  *)
(* the reporter of every call that came through a stream interceptor has   *)
(* the shape of the call's flags.                                          *)
(***************************************************************************)
ShapeOfFlags(clientStreams, serverStreams) ==
    CASE ~clientStreams /\ ~serverStreams -> Unary
      [] clientStreams /\ ~serverStreams -> ClientStream
      [] ~clientStreams /\ serverStreams -> ServerStream
      [] clientStreams /\ serverStreams -> BidiStream

C15_ShapeFromFlags ==
    \A c \in DOMAIN calls :
        (calls[c].pc # "idle" /\ calls[c].stream) =>
            calls[c].monitor.rpcType
                = ShapeOfFlags(calls[c].desc.ClientStreams,
                               calls[c].desc.ServerStreams)

(***************************************************************************)
(* C16: Handled is the terminal event of a call's reporter: in every       *)
(* execution of every interceptor and decorated stream, no SentMessage and *)
(* no ReceivedMessage event is recorded on a reporter after Handled was    *)
(* recorded on it.                                                         *)
(***************************************************************************)
C16_HandledIsTerminal ==
    \A c \in DOMAIN calls : calls[c].late = 0

(***************************************************************************)
(* C17: when the streamer of the client's stream interceptor fails, the    *)
(* interceptor reports Handled once, at once, with the status code of the  *)
(* streamer's error, and returns nil, not a decorated stream, with that    *)
(* error; no message event and no further terminal event is recorded for   *)
(* the call afterwards.                                                    *)
(***************************************************************************)
\* The streamer of the client stream call c has failed.
EstablishmentFailed(c) ==
    /\ calls[c].role = "client"
    /\ calls[c].stream
    /\ calls[c].pc = "done"

C17_FailedEstablishment ==
    /\ [](\A c \in DOMAIN calls :
             EstablishmentFailed(c) =>
                 LET r == calls[c].monitor
                     code == StatusCodeOf(calls[c].wrapped.err)
                 IN  /\ calls[c].wrapped.err # nil
                     /\ calls[c].returned.err = calls[c].wrapped.err
                     /\ calls[c].returned.resp = "nil"
                     /\ calls[c].returned.by # "monitoredClientStream"
                     /\ calls[c].handled = 1
                     /\ calls[c].ops = 0
                     /\ calls[c].late = 0
                     /\ CallsOf("client", r) = {c} =>
                           /\ Value(cm.clientHandledCounter,
                                    LabelsWithCode(r, code)) = 1
                           /\ HandledTotal("client", r) = 1
                           /\ Value(cm.clientStreamMsgSent, Labels(r)) = 0
                           /\ Value(cm.clientStreamMsgReceived, Labels(r)) = 0)
    /\ [][\A c \in DOMAIN calls :
             EstablishmentFailed(c) =>
                 LET r == calls[c].monitor
                 IN  /\ calls'[c] = calls[c]
                     /\ CallsOf("client", r)' = {c} =>
                           /\ Value(cm'.clientStreamMsgSent, Labels(r))
                                  = Value(cm.clientStreamMsgSent, Labels(r))
                           /\ Value(cm'.clientStreamMsgReceived, Labels(r))
                                  = Value(cm.clientStreamMsgReceived, Labels(r))
                           /\ \A code \in allCodes :
                                  Value(cm'.clientHandledCounter,
                                        LabelsWithCode(r, code))
                                  = Value(cm.clientHandledCounter,
                                          LabelsWithCode(r, code))]_vars

\* The streamer has failed with a NotFound status and the call is counted as
\* handled with NotFound.
C17_Witness ==
    \E c \in DOMAIN calls :
        /\ EstablishmentFailed(c)
        /\ calls[c].wrapped.err = StatusError(NotFound)
        /\ calls[c].returned = Result("nil", StatusError(NotFound))
        /\ Value(cm.clientHandledCounter,
                 LabelsWithCode(calls[c].monitor, NotFound)) = 1

(***************************************************************************)
(* C18: on a decorated client stream every SendMsg attempt and every       *)
(* RecvMsg attempt takes one timer before the underlying operation and     *)
(* observes its duration once after it has returned, whether it            *)
(* succeeded, failed or hit the end of the stream: the observations count  *)
(* the attempts, not the successes.  With the histogram of its kind        *)
(* enabled, every attempt adds one observation to the series of the        *)
(* call's label tuple in that histogram, and none to the other histogram.  *)
(***************************************************************************)
\* A step of monitoredClientStream.SendMsg / RecvMsg on the call c.
ClientStreamStep(c, op) ==
    /\ calls[c].role = "client"
    /\ calls[c].pc = "open"
    /\ calls'[c].ops = calls[c].ops + 1
    /\ calls'[c].last.op = op

\* The observations the step adds to the series of lvs in a histogram.
Observed(before, after, lvs) ==
    Value(after.series, lvs) - Value(before.series, lvs)

C18_TimerObservedPerAttempt ==
    [][\A c \in DOMAIN calls :
          LET lvs == Labels(calls[c].monitor)
              sent == Observed(cm.clientStreamSendHistogram,
                               cm'.clientStreamSendHistogram, lvs)
              received == Observed(cm.clientStreamRecvHistogram,
                                   cm'.clientStreamRecvHistogram, lvs)
          IN  /\ ClientStreamStep(c, "SendMsg") =>
                    /\ sent = IF cm.clientStreamSendHistogramEnabled
                              THEN 1 ELSE 0
                    /\ received = 0
              /\ ClientStreamStep(c, "RecvMsg") =>
                    /\ received = IF cm.clientStreamRecvHistogramEnabled
                                  THEN 1 ELSE 0
                    /\ sent = 0]_vars

\* Three attempts on a stream, one SendMsg that failed, one RecvMsg that
\* succeeded and one that hit the end of the stream, were all observed.
C18_Witness ==
    \E c \in DOMAIN calls :
        LET lvs == Labels(calls[c].monitor)
        IN  /\ calls[c].pc = "open"
            /\ calls[c].ops = 3
            /\ calls[c].sendOk = 0
            /\ calls[c].recvOk = 1
            /\ calls[c].last = Op("RecvMsg", EOF, EOF)
            /\ Value(cm.clientStreamSendHistogram.series, lvs) = 1
            /\ Value(cm.clientStreamRecvHistogram.series, lvs) = 2

(***************************************************************************)
(* C19: in every reachable state, under every interleaving of the calls,   *)
(* the handled counter of a (type, service, method), summed over all       *)
(* status codes, never exceeds its started counter: started is incremented *)
(* when the reporter is created, before the wrapped operation runs, and    *)
(* handled only afterwards.                                                *)
(***************************************************************************)
C19_HandledNeverExceedsStarted ==
    \A role \in Roles, r \in Monitors :
        HandledTotal(role, r) <= Value(Started(role), Labels(r))

(***************************************************************************)
(* C20: for every optional histogram of a registry, in every reachable     *)
(* state, the interleavings of an Enable call with concurrent Describe and *)
(* Collect calls included, the enabled flag being true implies that the    *)
(* histogram is set, Enable assigning the histogram before it sets the     *)
(* flag and nothing clearing either; so Describe and Collect never         *)
(* dereference a histogram that is not set.                                *)
(***************************************************************************)
C20_EnabledImpliesSet ==
    /\ \A h \in Histograms :
           Registry(h.role)[h.enabled] => Registry(h.role)[h.histogram].set
    /\ \A i \in 1..Len(ch.sent) : ch.sent[i] # NilDereference

(***************************************************************************)
(* C21: on a decorated client stream only RecvMsg drives the terminal      *)
(* event: a SendMsg call, whether it succeeds or fails, leaves the handled *)
(* counter of every status code as it is.  On a decorated server stream    *)
(* neither SendMsg nor RecvMsg, one that returns the end of the stream or  *)
(* an error included, changes the handled counter, which is incremented    *)
(* only when the stream handler returns, and then once.                    *)
(***************************************************************************)
\* A step of monitoredServerStream.SendMsg or RecvMsg on the call c.
ServerStreamStep(c) ==
    /\ calls[c].role = "server"
    /\ calls[c].stream
    /\ calls[c].pc = "wrapped"
    /\ calls'[c].ops = calls[c].ops + 1

\* The step in which the stream handler of the call c returns.
StreamHandlerReturns(c) ==
    /\ calls[c].role = "server"
    /\ calls[c].stream
    /\ calls[c].pc = "wrapped"
    /\ calls'[c].pc = "done"

\* The series of a handled counter, summed over label tuples and codes.
HandledSum(vec) == SumOver(vec, DOMAIN vec)

C21_HandledOnlyAtTerminal ==
    [][\A c \in DOMAIN calls :
          /\ ClientStreamStep(c, "SendMsg") =>
                /\ cm'.clientHandledCounter = cm.clientHandledCounter
                /\ calls'[c].handled = calls[c].handled
          /\ ServerStreamStep(c) =>
                /\ sm'.serverHandledCounter = sm.serverHandledCounter
                /\ calls'[c].handled = calls[c].handled
          /\ (calls[c].role = "server" /\ calls[c].stream
              /\ sm'.serverHandledCounter # sm.serverHandledCounter) =>
                /\ StreamHandlerReturns(c)
                /\ HandledSum(sm'.serverHandledCounter)
                       = HandledSum(sm.serverHandledCounter) + 1]_vars

\* A SendMsg on a client stream has failed after one that succeeded, and the
\* call is not counted as handled.
C21_Witness ==
    \E c \in DOMAIN calls :
        /\ calls[c].role = "client"
        /\ calls[c].pc = "open"
        /\ calls[c].sendOk = 1
        /\ calls[c].ops = 2
        /\ calls[c].last = Op("SendMsg", StatusError(NotFound),
                              StatusError(NotFound))
        /\ calls[c].handled = 0
        /\ HandledTotal("client", calls[c].monitor) = 0

=============================================================================
